---- MODULE Spec2Model ----
(***************************************************************************)
(* Itinerary route generation and directions of the Google Maps MCP server *)
(* (mcp_servers/google_maps_server.py) and the maps tool wrappers          *)
(* (tools/maps_mcp.py, tools/mcp_tools.py).                                *)
(*                                                                         *)
(* A string is a sequence of one-character tokens; a URL is a sequence of  *)
(* tokens too, where a literal piece of the URL (the base path, the query  *)
(* suffix, an escape such as %2C) is one token.                            *)
(***************************************************************************)
EXTENDS Integers, Sequences, FiniteSets, TLC

\* ------------------------------------------------------------------ bounds
\* the longest experience / destination list a caller submits
MaxExp == 3
\* how many legs more than there are waypoints the provider may answer with
ExtraLegs == 1
\* the longest experience list an agent hands to the MapsMCPTool wrapper
MaxToolExp == 2
\* the most activities an itinerary handed to the calendar tool lists
MaxActivities == 8
\* the most legs an itinerary handed to the calendar tool lists
MaxCalLegs == 2
\* the videos a playlist can hold, and the longest listing of one check
NumVideos == 2
MaxListing == 2

\* ------------------------------------------------------------- strings
\* Python's None, and a key missing from a dict read with .get(key)
None == <<"None">>
Empty == <<>>

\* Python truthiness of an optional string: None and "" are falsy
Truthy(s) == s /= None /\ s /= Empty

\* a or b or c on optional strings
Or3(a, b, c) == IF Truthy(a) THEN a ELSE IF Truthy(b) THEN b ELSE c

\* urllib.parse.quote_plus on one character: letters are kept, a space
\* becomes +, every other character is percent-escaped
QuoteChar(c) ==
    CASE c = " " -> "+"
      [] c = "," -> "%2C"
      [] c = "/" -> "%2F"
      [] OTHER   -> c

\* urllib.parse.quote_plus(loc)
QuotePlus(loc) == [i \in 1..Len(loc) |-> QuoteChar(loc[i])]

\* s.replace(" ", "+").replace(",", "%2C"): nothing else is escaped
ReplaceChar(c) ==
    CASE c = " " -> "+"
      [] c = "," -> "%2C"
      [] OTHER   -> c

ReplaceEncode(loc) == [i \in 1..Len(loc) |-> ReplaceChar(loc[i])]

\* "/".join(parts)
RECURSIVE JoinSlash(_)
JoinSlash(parts) ==
    IF parts = <<>> THEN <<>>
    ELSE IF Len(parts) = 1 THEN parts[1]
    ELSE parts[1] \o <<"/">> \o JoinSlash(Tail(parts))

\* mode_mapping.get(mode, 'driving')
ModeMapping(mode) ==
    IF mode \in {<<"driving">>, <<"walking">>, <<"bicycling">>, <<"transit">>}
    THEN mode ELSE <<"driving">>

BaseUrl == "https://www.google.com/maps/dir/"
RouteSuffix == "/@?entry=ttu&g_ep=EgoyMDI0MTIwMy4wIKXMDSoASAFQAw%3D%3D&mode="
LegSuffix == "/@?entry=ttu&mode="

\* the complete-route link of the itinerary handler
CompleteRouteLink(start_location, waypoints, mode) ==
    LET all_locations == <<start_location>> \o waypoints
        encoded_locations == [i \in 1..Len(all_locations) |-> QuotePlus(all_locations[i])]
    IN  <<BaseUrl>> \o JoinSlash(encoded_locations) \o <<RouteSuffix>> \o ModeMapping(mode)

\* the per-leg link of the itinerary handler
LegLink(current_origin, waypoint, mode) ==
    <<BaseUrl>> \o QuotePlus(current_origin) \o <<"/">> \o QuotePlus(waypoint)
        \o <<LegSuffix>> \o ModeMapping(mode)


\* ------------------------------------------------- the itinerary handler
\* an experience of the request: a dict (any of its keys may be missing,
\* read as None) or a value the handler turns into str(exp)
DictExp(name, location, address) ==
    [isdict |-> TRUE, name |-> name, location |-> location, address |-> address]
StrExp(text) == [isdict |-> FALSE, text |-> text]

\* location = exp.get("location") or exp.get("address") or exp.get("name")
ExpLocation(exp) ==
    IF exp.isdict THEN Or3(exp.location, exp.address, exp.name) ELSE exp.text

\* every experience named by its location
ExpNameIsLocation(exp) == ExpLocation(exp)

\* name = exp.get("name", location): the default is used for a missing key
ExpName(exp) ==
    IF exp.isdict
    THEN (IF exp.name = None THEN ExpLocation(exp) ELSE exp.name)
    ELSE exp.text

\* a loop that appends every experience, with or without a location
RECURSIVE ExtractWaypointsKeepAll(_)
ExtractWaypointsKeepAll(experiences) ==
    IF experiences = <<>> THEN <<>>
    ELSE <<[location |-> ExpLocation(Head(experiences)),
            name |-> ExpName(Head(experiences))]>>
            \o ExtractWaypointsKeepAll(Tail(experiences))

\* the loop over experiences: waypoints and experience_names, kept in step;
\* an experience without a location is skipped
RECURSIVE ExtractWaypoints(_)
ExtractWaypoints(experiences) ==
    IF experiences = <<>> THEN <<>>
    ELSE LET exp == Head(experiences)
             rest == ExtractWaypoints(Tail(experiences))
         IN  IF Truthy(ExpLocation(exp))
             THEN <<[location |-> ExpLocation(exp), name |-> ExpName(exp)]>> \o rest
             ELSE rest

\* a loop that never moves current_origin on
CurrentOriginStuck(start_location, waypoints, i) == start_location

\* current_origin when the loop reaches leg i (1-based): start_location for
\* the first leg, afterwards the waypoint of the leg before
CurrentOrigin(start_location, waypoints, i) ==
    IF i = 1 THEN start_location ELSE waypoints[i - 1].location

\* one line of a calendar description: "label: value" ("label value" for the
\* first line)
Line(label, value) == [label |-> label, value |-> value]

\* one entry of legs_info; route_legs are the provider's legs
LegInfo(start_location, waypoints, route_legs, mode, i) ==
    LET current_origin == CurrentOrigin(start_location, waypoints, i)
        waypoint == waypoints[i].location
        name == waypoints[i].name
        leg_link == LegLink(current_origin, waypoint, mode)
    IN  IF i <= Len(route_legs)
        THEN LET leg == route_legs[i]
             IN  [experience_name |-> name,
                  origin |-> current_origin,
                  destination |-> waypoint,
                  distance |-> leg.distance.text,
                  duration |-> leg.duration.text,
                  distance_value |-> leg.distance.value,
                  duration_value |-> leg.duration.value,
                  shareable_link |-> leg_link,
                  calendar_description |->
                      << Line("Travel to", name), Line("From", current_origin),
                         Line("To", waypoint), Line("Distance", leg.distance.text),
                         Line("Duration", leg.duration.text),
                         Line("Directions", leg_link) >>]
        ELSE [experience_name |-> name,
              origin |-> current_origin,
              destination |-> waypoint,
              shareable_link |-> leg_link,
              calendar_description |->
                  << Line("Travel to", name), Line("Directions", leg_link) >>]

\* sum(leg["distance"]["value"] for leg in route["legs"])
RECURSIVE SumDistance(_)
SumDistance(route_legs) ==
    IF route_legs = <<>> THEN 0
    ELSE Head(route_legs).distance.value + SumDistance(Tail(route_legs))

\* sum(leg["duration"]["value"] for leg in route["legs"])
RECURSIVE SumDuration(_)
SumDuration(route_legs) ==
    IF route_legs = <<>> THEN 0
    ELSE Head(route_legs).duration.value + SumDuration(Tail(route_legs))

\* f"{total_distance / 1609.34:.1f} miles" if total_distance > 1609
\* else f"{total_distance} meters"; miles are kept in tenths, rounded to the
\* nearest tenth
TotalDistanceText(total_distance) ==
    IF total_distance > 1609
    THEN [unit |-> "miles", tenths |-> (total_distance * 1000 + 80467) \div 160934]
    ELSE [unit |-> "meters", value |-> total_distance]

\* hours shown only above one hour
TotalDurationTextAboveHour(total_duration) ==
    IF total_duration > 3600
    THEN [form |-> "hm", h |-> total_duration \div 3600,
          m |-> (total_duration % 3600) \div 60]
    ELSE [form |-> "m", h |-> 0, m |-> total_duration \div 60]

\* f"{h}h {m}m" if total_duration >= 3600 else f"{total_duration // 60}m"
TotalDurationText(total_duration) ==
    IF total_duration >= 3600
    THEN [form |-> "hm", h |-> total_duration \div 3600,
          m |-> (total_duration % 3600) \div 60]
    ELSE [form |-> "m", h |-> 0, m |-> total_duration \div 60]

\* what gmaps.directions did: it raised (an API or transport error), it timed
\* out (an exception as well), it returned no route, or it returned routes of
\* which the handler takes the first
ProviderFailed(provider) == provider.kind \in {"raise", "timeout"}

\* the arguments of the one gmaps.directions call of the handler
DirectionsCall(start_location, waypoints, mode, optimize) ==
    [origin |-> start_location,
     destination |-> waypoints[Len(waypoints)].location,
     waypoints |-> IF Len(waypoints) > 1
                   THEN [i \in 1..(Len(waypoints) - 1) |-> waypoints[i].location]
                   ELSE None,
     optimize_waypoints |-> optimize,
     mode |-> mode]

\* the part of the handler behind the provider call, for a route the provider
\* returned: the links, legs_info, the totals and the returned dict
ComposeItinerary(experiences, start_location, mode, waypoints, provider) ==
    LET route_legs == provider.legs
        complete_route_link == CompleteRouteLink(start_location,
            [i \in 1..Len(waypoints) |-> waypoints[i].location], mode)
        legs_info == [i \in 1..Len(waypoints) |->
            LegInfo(start_location, waypoints, route_legs, mode, i)]
        total_distance == SumDistance(route_legs)
        total_duration == SumDuration(route_legs)
        total_distance_text == TotalDistanceText(total_distance)
        total_duration_text == TotalDurationText(total_duration)
    IN  [found |-> TRUE,
         itinerary_summary |-> Len(experiences),
         total_distance |-> total_distance_text,
         total_duration |-> total_duration_text,
         total_distance_value |-> total_distance,
         total_duration_value |-> total_duration,
         start_location |-> start_location,
         end_location |-> waypoints[Len(waypoints)].location,
         experience_count |-> Len(experiences),
         legs |-> legs_info,
         complete_route_link |-> complete_route_link,
         optimized_order |-> provider.waypoint_order,
         calendar_master_description |->
            << Line("Complete Itinerary Route", Len(experiences)),
               Line("Total distance", total_distance_text),
               Line("Total duration", total_duration_text),
               Line("View complete route", complete_route_link) >>,
         overview_polyline |-> provider.polyline]

\* handle_generate_itinerary_route(args) when gmaps.directions answers with
\* `provider`. The outcome is a raised exception or the returned dict;
\* `calls` lists the gmaps.directions calls made.
HandleGenerateItineraryRoute(args, provider) ==
    LET experiences == args.experiences
        start_location == args.start_location
        mode == args.mode
        optimize == args.optimize
        waypoints == ExtractWaypoints(experiences)
    IN  IF experiences = <<>> \/ ~Truthy(start_location)
        THEN [kind |-> "raise", exc |-> "ValueError",
              error |-> "experiences and start_location parameters are required",
              calls |-> <<>>]
        ELSE IF waypoints = <<>>
        THEN [kind |-> "raise", exc |-> "ValueError",
              error |-> "No valid locations found in experiences",
              calls |-> <<>>]
        ELSE LET call == DirectionsCall(start_location, waypoints, mode, optimize)
             IN  IF ProviderFailed(provider)
                 THEN [kind |-> "raise", exc |-> provider.kind,
                       error |-> "provider error", calls |-> <<call>>]
                 ELSE IF provider.kind = "empty"
                 THEN [kind |-> "return", calls |-> <<call>>,
                       data |-> [found |-> FALSE, message |-> "No route found"]]
                 ELSE [kind |-> "return", calls |-> <<call>>,
                       data |-> ComposeItinerary(experiences, start_location, mode,
                                                 waypoints, provider)]

\* ------------------------------------------------ the directions handler
\* generate_shareable_link(origin, destination, waypoints, mode), the function
\* nested in handle_directions
GenerateShareableLink(origin, destination, waypoints, mode) ==
    LET locations == <<origin>> \o waypoints \o <<destination>>
        encoded_locations == [i \in 1..Len(locations) |-> QuotePlus(locations[i])]
    IN  <<BaseUrl>> \o JoinSlash(encoded_locations) \o <<RouteSuffix>> \o ModeMapping(mode)

\* the arguments of the one gmaps.directions call of handle_directions
DirectionsArgs(origin, destination, mode, waypoints, optimize_waypoints) ==
    [origin |-> origin,
     destination |-> destination,
     waypoints |-> waypoints,
     optimize_waypoints |-> optimize_waypoints,
     mode |-> mode]

\* handle_directions(args) when gmaps.directions answers with `provider`:
\* the first leg of the first route is reported, the calendar summary names
\* the addresses the provider resolved. With waypoints, the calendar summary
\* evaluates len(waypoints + 2), a list plus an int.
HandleDirections(args, provider) ==
    LET origin == args.origin
        destination == args.destination
        mode == args.mode
        waypoints == args.waypoints
        call == DirectionsArgs(origin, destination, mode, waypoints, args.optimize_waypoints)
    IN  IF ~Truthy(origin) \/ ~Truthy(destination)
        THEN [kind |-> "raise", exc |-> "ValueError",
              error |-> "origin and destination parameters are required",
              calls |-> <<>>]
        ELSE IF ProviderFailed(provider)
        THEN [kind |-> "raise", exc |-> provider.kind,
              error |-> "provider error", calls |-> <<call>>]
        ELSE IF provider.kind = "empty"
        THEN [kind |-> "return", calls |-> <<call>>,
              data |-> [found |-> FALSE, message |-> "No routes found"]]
        ELSE IF provider.legs = <<>>
        THEN [kind |-> "raise", exc |-> "IndexError",
              error |-> "list index out of range", calls |-> <<call>>]
        ELSE IF waypoints /= <<>>
        THEN [kind |-> "raise", exc |-> "TypeError",
              error |-> "can only concatenate list (not \"int\") to list",
              calls |-> <<call>>]
        ELSE LET leg == provider.legs[1]
                 shareable_link == GenerateShareableLink(origin, destination, waypoints, mode)
             IN  [kind |-> "return", calls |-> <<call>>,
                  data |->
                    [found |-> TRUE,
                     distance |-> leg.distance.text,
                     duration |-> leg.duration.text,
                     distance_value |-> leg.distance.value,
                     duration_value |-> leg.duration.value,
                     waypoint_order |-> provider.waypoint_order,
                     shareable_link |-> shareable_link,
                     calendar_summary |-> <<"start_address", "end_address">>,
                     calendar_description |->
                        << Line("Route", <<"start_address", "end_address">>),
                           Line("Distance", leg.distance.text),
                           Line("Duration", leg.duration.text),
                           Line("View route", shareable_link) >>,
                     overview_polyline |-> provider.polyline]]

\* ------------------------------------------------- the lookup handlers
\* the methods run_mcp_method knows besides directions and
\* generate_itinerary_route
LookupMethods ==
    {"geocode", "reverse_geocode", "search_places", "place_details",
     "distance_matrix", "elevation"}

\* handle_geocode and the handlers of its shape: a required argument (or a
\* ValueError), then a call of the client, whose exception goes up to the
\* dispatcher and whose empty result is answered "not found"
HandleLookup(args, provider) ==
    IF ~Truthy(args.required)
    THEN [kind |-> "raise", exc |-> "ValueError",
          error |-> "parameter is required", calls |-> <<>>]
    ELSE IF ProviderFailed(provider)
    THEN [kind |-> "raise", exc |-> provider.kind,
          error |-> "provider error", calls |-> <<[lookup |-> args.required]>>]
    ELSE [kind |-> "return", calls |-> <<[lookup |-> args.required]>>,
          data |-> [found |-> provider.kind /= "empty"]]

\* ----------------------------------------------------- the dispatcher
\* a handler that raised answered like one that returned
McpResponseIgnoringRaise(out) ==
    [success |-> TRUE, calls |-> out.calls, data |-> [found |-> FALSE]]

\* the end of run_mcp_method: MCPResponse(success=True, data=result) when the
\* handler returned, the except branch when it raised
McpResponse(out) ==
    IF out.kind = "raise"
    THEN [success |-> FALSE, calls |-> out.calls, error |-> out.error]
    ELSE [success |-> TRUE, calls |-> out.calls, data |-> out.data]

\* run_mcp_method(request): gmaps is the module-level client (None without an
\* API key). The names the tool wrappers send that the server does not know
\* fall to the else branch.
RunMcpMethod(gmaps, method, args, provider) ==
    IF ~gmaps
    THEN [success |-> FALSE, calls |-> <<>>,
          error |-> "Google Maps client not initialized - check API key"]
    ELSE IF method = "directions"
    THEN McpResponse(HandleDirections(args, provider))
    ELSE IF method = "generate_itinerary_route"
    THEN McpResponse(HandleGenerateItineraryRoute(args, provider))
    ELSE IF method \in LookupMethods
    THEN McpResponse(HandleLookup(args, provider))
    ELSE [success |-> FALSE, calls |-> <<>>, error |-> "Unknown method"]


\* ------------------------------------------------- the maps tool wrappers
\* what a requests.post of a tool wrapper met: an answer with a success
\* status, or an exception (a transport error or a non-success status raised
\* by raise_for_status, or the timeout)
HttpOutcomes == {"answered", "http_error", "timeout"}
\* the link requests of one itinerary: answered or not
LinkOutcomes == {"answered", "http_error"}

\* no gmaps.directions answer is involved
NoProvider == [kind |-> "none", legs |-> <<>>, waypoint_order |-> <<>>, polyline |-> "none"]

\* the body the server at BASE_URL answers a wrapper's request with: the
\* wrappers send origin/destination(s)/mode, so the handler's
\* args.get("experiences", []) and args.get("start_location") see no key
ServerAnswer(gmaps, method, mode) ==
    RunMcpMethod(gmaps, method,
                 [experiences |-> <<>>, start_location |-> None,
                  mode |-> mode, optimize |-> TRUE],
                 NoProvider)

\* the except branch of maps_generate_shareable_link; waypoints are not used
FallbackLink(origin, destination) ==
    LET encoded_origin == ReplaceEncode(origin)
        encoded_dest == ReplaceEncode(destination)
    IN  <<BaseUrl>> \o encoded_origin \o <<"/">> \o encoded_dest \o <<"/">>

\* maps_generate_shareable_link(origin, destination, waypoints) when its
\* requests.post meets `http`: response.json().get("url", "") or the
\* fallback link
MapsGenerateShareableLink(gmaps, origin, destination, waypoints, http) ==
    IF http = "answered"
    THEN LET json == ServerAnswer(gmaps, "generate_shareable_link", <<"driving">>)
         IN  IF "url" \in DOMAIN json THEN json.url ELSE Empty
    ELSE FallbackLink(origin, destination)

\* an estimate that gets shorter from leg to leg
DistanceValShrinking(i) == 50 - i * 20

\* distance_val = 5.0 + i * 2.0 (in tenths of a mile), duration_val = 15 + i * 8,
\* for the 0-based leg index i
DistanceVal(i) == 50 + i * 20
DurationVal(i) == 15 + i * 8

\* the leg the fallback loop appends for the 1-based index i
FallbackLeg(gmaps, origin, destinations, links, i) ==
    LET current_location == IF i = 1 THEN origin ELSE destinations[i - 1]
        dest == destinations[i]
    IN  [origin |-> current_location,
         destination |-> dest,
         distance |-> [unit |-> "miles", tenths |-> DistanceVal(i - 1)],
         duration |-> [unit |-> "mins", value |-> DurationVal(i - 1)],
         shareable_link |->
             MapsGenerateShareableLink(gmaps, current_location, dest, <<>>, links[i])]

\* total_distance and total_duration after n rounds of the fallback loop
RECURSIVE FallbackTotalDistance(_)
FallbackTotalDistance(n) ==
    IF n = 0 THEN 0 ELSE FallbackTotalDistance(n - 1) + DistanceVal(n - 1)

RECURSIVE FallbackTotalDuration(_)
FallbackTotalDuration(n) ==
    IF n = 0 THEN 0 ELSE FallbackTotalDuration(n - 1) + DurationVal(n - 1)

\* the requests.post calls of the fallback path, after the first one: per
\* leg one by maps_route and one by maps_generate_shareable_link, and a last
\* one for complete_route_link
FallbackPosts(n) ==
    [k \in 1..(2 * n + 1) |->
        IF k = 2 * n + 1 THEN "generate_shareable_link"
        ELSE IF k % 2 = 1 THEN "route" ELSE "generate_shareable_link"]

\* maps_itinerary_route(origin, destinations, mode): `http` is what the first
\* requests.post met, links[i] what the link request of leg i met and
\* links[n + 1] what the link request of the complete route met
MapsItineraryRoute(gmaps, origin, destinations, mode, http, links) ==
    LET n == Len(destinations)
    IN  IF http = "answered"
        THEN [kind |-> "return", posts |-> <<"generate_itinerary_route">>,
              data |-> ServerAnswer(gmaps, "generate_itinerary_route", mode)]
        ELSE IF n = 0
        THEN [kind |-> "raise", exc |-> "IndexError",
              posts |-> <<"generate_itinerary_route">>]
        ELSE [kind |-> "return",
              posts |-> <<"generate_itinerary_route">> \o FallbackPosts(n),
              data |->
                [origin |-> origin,
                 destinations |-> destinations,
                 mode |-> mode,
                 total_distance |-> [unit |-> "miles", tenths |-> FallbackTotalDistance(n)],
                 total_duration |-> [unit |-> "mins", value |-> FallbackTotalDuration(n)],
                 legs |-> [i \in 1..n |-> FallbackLeg(gmaps, origin, destinations, links, i)],
                 complete_route_link |->
                     MapsGenerateShareableLink(gmaps, origin, destinations[n],
                         SubSeq(destinations, 1, n - 1), links[n + 1]),
                 error |-> http,
                 fallback |-> TRUE]]

\* the except branch of MapsMCPTool.generate_itinerary_route: a search link
\* for the start location, spaces replaced
BasicRouteLink(start_location) ==
    <<"https://www.google.com/maps/search/">>
        \o [i \in 1..Len(start_location) |->
               IF start_location[i] = " " THEN "+" ELSE start_location[i]]

\* MapsMCPTool.generate_itinerary_route(experiences, start_location, mode,
\* optimize): one requests.post to the server, which meets `http`; the
\* server's gmaps.directions answers with `provider`
MapsMCPToolItineraryRoute(gmaps, experiences, start_location, mode, optimize, http, provider) ==
    IF http = "answered"
    THEN LET result == RunMcpMethod(gmaps, "generate_itinerary_route",
                           [experiences |-> experiences, start_location |-> start_location,
                            mode |-> mode, optimize |-> optimize],
                           provider)
         IN  [posts |-> <<"generate_itinerary_route">>, calls |-> result.calls,
              data |-> IF result.success THEN result.data
                       ELSE [error |-> result.error, fallback |-> TRUE,
                             message |-> "Failed to generate itinerary route"]]
    ELSE [posts |-> <<"generate_itinerary_route">>, calls |-> <<>>,
          data |-> [error |-> http, fallback |-> TRUE,
                    experiences |-> experiences,
                    start_location |-> start_location,
                    message |-> "Could not generate shareable links - using basic route info",
                    basic_route_link |-> BasicRouteLink(start_location)]]


\* ------------------------------------------------------------ the inputs
LocStart == <<"U", " ", "S">>
LocBridge == <<"G", ",", "B">>
LocIsland == <<"A", "/", "I">>
LocWharf == <<"F", " ", "W">>
NameBridge == <<"b">>
NameWharf == <<"w">>

\* experiences a caller sends: a dict with name and location, a plain
\* string, a dict with an empty location and nothing else, a dict whose
\* location has to come from its address
ExpPool ==
    { DictExp(NameBridge, LocBridge, None),
      StrExp(LocIsland),
      DictExp(None, Empty, None),
      DictExp(NameWharf, None, LocWharf) }

StartPool == {Empty, LocStart}
DestPool == {Empty, LocBridge, LocIsland}
\* a mode the mode mapping knows (and that is not its default) and one it does not
ModePool == {<<"walking">>, <<"hover">>}

SeqsUpTo(S, n) == UNION {[1..k -> S] : k \in 0..n}

\* the legs a provider answers with: leg j of one of two series
SeriesDistance(s, j) ==
    IF s = 1 THEN <<1000, 2000, 1500>>[((j - 1) % 3) + 1]
    ELSE <<1609, 400, 3000>>[((j - 1) % 3) + 1]
SeriesDuration(s, j) ==
    IF s = 1 THEN <<600, 900, 500>>[((j - 1) % 3) + 1]
    ELSE <<3600, 59, 1800>>[((j - 1) % 3) + 1]

ProviderLeg(s, j) ==
    [distance |-> [text |-> <<ToString(SeriesDistance(s, j)), "m">>,
                   value |-> SeriesDistance(s, j)],
     duration |-> [text |-> <<ToString(SeriesDuration(s, j)), "s">>,
                   value |-> SeriesDuration(s, j)]]

\* the orders of k interior waypoints, as 0-based indices
Permutations0(k) ==
    {p \in [1..k -> 0..(k - 1)] : \A i, j \in 1..k : i /= j => p[i] /= p[j]}

\* waypoint_order of an answer: missing, the identity, or (only when
\* optimisation was asked for) any order of the interior waypoints
WaypointOrders(k, optimize) ==
    {<<>>} \cup {[i \in 1..k |-> i - 1]} \cup (IF optimize THEN Permutations0(k) ELSE {})

\* what gmaps.directions may do with a call for n waypoints
ProviderOutcomes(n, optimize) ==
    { [kind |-> kd, legs |-> <<>>, waypoint_order |-> <<>>, polyline |-> "none"] :
         kd \in {"raise", "timeout", "empty"} }
    \cup
    { [kind |-> "route",
       legs |-> [j \in 1..k |-> ProviderLeg(s, j)],
       waypoint_order |-> o,
       polyline |-> "points"] :
         k \in 0..(n + ExtraLegs), s \in {1, 2}, o \in WaypointOrders(n - 1, optimize) }

\* what the client may do with the call of a lookup handler
LookupOutcomes ==
    { [kind |-> kd, legs |-> <<>>, waypoint_order |-> <<>>, polyline |-> "none"] :
         kd \in {"raise", "timeout", "empty", "found"} }

\* ------------------------------------------------ requests at the same time
\* the requests the server has in hand at once
Requests == {1, 2}

\* one frame for all invocations, as if the handler's variables were
\* module-level
FrameShared(r) == 1

\* the frame the handler invocation of request r keeps its local variables
\* in (waypoints, experience_names, route): its own
Frame(r) == r

\* a request not yet received, and a frame nothing was assigned in
IdleRequest ==
    [pc |-> "idle", args |-> [none |-> TRUE],
     provider |-> [kind |-> "none", legs |-> <<>>, waypoint_order |-> <<>>, polyline |-> "none"],
     response |-> [kind |-> "none"], overlapped |-> FALSE]
NoLocals ==
    [waypoints |-> <<>>,
     route |-> [kind |-> "none", legs |-> <<>>, waypoint_order |-> <<>>, polyline |-> "none"]]

\* the itinerary requests that meet in the server: two stops, two
\* experiences of which the first is dropped, and one without a start
ConcurrentRequests ==
    { [experiences |-> <<DictExp(NameBridge, LocBridge, None), StrExp(LocIsland)>>,
       start_location |-> LocStart, mode |-> <<"walking">>, optimize |-> TRUE],
      [experiences |-> <<DictExp(None, Empty, None), DictExp(NameWharf, None, LocWharf)>>,
       start_location |-> LocIsland, mode |-> <<"hover">>, optimize |-> FALSE],
      [experiences |-> <<DictExp(NameBridge, LocBridge, None)>>,
       start_location |-> Empty, mode |-> <<"walking">>, optimize |-> TRUE] }

\* ---------------------------------------------- the calendar tool wrapper
\* dict.get(key, default)
Get(d, key, default) == IF key \in DOMAIN d THEN d[key] ELSE default

DigitChars == <<"0", "1", "2", "3", "4", "5", "6", "7", "8", "9">>

\* str(n) of a natural number, one token per digit
RECURSIVE Digits(_)
Digits(n) ==
    IF n < 10 THEN <<DigitChars[n + 1]>>
    ELSE Digits(n \div 10) \o <<DigitChars[(n % 10) + 1]>>

\* f"{n:02d}": at least two digits, padded with a zero
TwoDigits(n) == IF n < 10 THEN <<"0">> \o Digits(n) ELSE Digits(n)

\* f"{base_date}T{hour:02d}:{minutes}:00"
TimeText(base_date, hour, minutes) ==
    base_date \o <<"T">> \o TwoDigits(hour) \o <<":">> \o minutes \o <<":", "0", "0">>

\* a leg converted to an activity without its link
LegActivityWithoutLink(leg) ==
    [name |-> <<"Travel to ">> \o Get(leg, "destination", <<"destination">>),
     location |-> Get(leg, "destination", Empty),
     duration |-> Get(leg, "duration", <<"30 mins">>),
     description |-> <<"Navigate to ">> \o Get(leg, "destination", Empty),
     maps_link |-> Empty]

\* a route leg converted to an activity
LegActivity(leg) ==
    [name |-> <<"Travel to ">> \o Get(leg, "destination", <<"destination">>),
     location |-> Get(leg, "destination", Empty),
     duration |-> Get(leg, "duration", <<"30 mins">>),
     description |-> <<"Navigate to ">> \o Get(leg, "destination", Empty),
     maps_link |-> Get(leg, "shareable_link", Empty)]

\* the activities the fallback works from: the itinerary's own, or, when it
\* has none, its legs converted
FallbackActivities(itinerary) ==
    IF ~itinerary.isdict THEN <<>>
    ELSE LET activities == Get(itinerary, "activities", <<>>)
         IN IF activities = <<>> /\ "legs" \in DOMAIN itinerary
            THEN [j \in 1..Len(itinerary.legs) |-> LegActivity(itinerary.legs[j])]
            ELSE activities

\* the fallback event of activity number i (from 0)
FallbackEvent(i, activity, participants, base_date) ==
    LET start_hour == 9 + i * 2
    IN [title |-> Get(activity, "name", <<"Activity ">> \o Digits(i + 1)),
        description |-> Get(activity, "description", Empty) \o <<"\n\nNavigation: ">>
                            \o Get(activity, "maps_link", <<"N/A">>),
        start_time |-> TimeText(base_date, start_hour, <<"0", "0">>),
        end_time |-> TimeText(base_date, start_hour + 1, <<"3", "0">>),
        location |-> Get(activity, "location", Empty),
        attendees |-> participants,
        maps_link |-> Get(activity, "maps_link", Empty),
        status |-> "created_fallback",
        fallback |-> TRUE]

\* calendar_create_itinerary_events: the events of the server's answer, or
\* the fallback events when the request or the reading of its answer raised
CalendarCreateItineraryEvents(itinerary, participants, base_date, answer) ==
    IF answer.kind = "answered"
    THEN Get(answer.json, "events", <<>>)
    ELSE LET activities == FallbackActivities(itinerary)
         IN [j \in 1..Len(activities) |->
                FallbackEvent(j - 1, activities[j], participants, base_date)]

\* what the calendar server did with the request: it answered with a JSON
\* object (with or without "events"), or the post, the status check or the
\* decoding raised
CalendarAnswers ==
    { [kind |-> "answered", json |-> [events |-> <<[event_id |-> <<"e", "1">>]>>]],
      [kind |-> "answered", json |-> [success |-> FALSE]],
      [kind |-> "unreachable"],
      [kind |-> "timeout"],
      [kind |-> "http_error"] }

\* the legs an itinerary lists: complete, without a link, without a
\* destination
CalLegPool ==
    { [origin |-> LocStart, destination |-> LocBridge, duration |-> <<"2 hours">>,
       shareable_link |-> LegLink(LocStart, LocBridge, <<"walking">>)],
      [origin |-> LocBridge, destination |-> LocIsland, duration |-> <<"4 hours">>],
      [origin |-> LocIsland, shareable_link |-> LegLink(LocIsland, LocWharf, <<"walking">>)] }

\* an activity as the itinerary lists it
CalActivity ==
    [name |-> NameBridge, location |-> LocBridge, description |-> <<"visit">>,
     maps_link |-> LegLink(LocStart, LocBridge, <<"walking">>)]
CalActivityBare == [duration |-> <<"1 hour">>]

\* the itineraries handed to the tool: legs only (with no "activities" key
\* or an empty list), activities (and legs beside them), neither, not a dict
CalItineraries ==
    { [isdict |-> TRUE, legs |-> legs] : legs \in SeqsUpTo(CalLegPool, MaxCalLegs) }
    \cup { [isdict |-> TRUE, activities |-> <<>>, legs |-> legs] :
              legs \in SeqsUpTo(CalLegPool, MaxCalLegs) }
    \cup { [isdict |-> TRUE, activities |-> [j \in 1..n |-> a],
            legs |-> <<CHOOSE leg \in CalLegPool : "destination" \notin DOMAIN leg>>] :
              n \in 1..MaxActivities, a \in {CalActivity, CalActivityBare} }
    \cup { [isdict |-> TRUE], [isdict |-> FALSE] }

CalBaseDate == <<"2", "0", "2", "6", "-", "0", "1", "-", "1", "5">>
CalParticipants == {<<>>, <<"p1@example.com", "p2@example.com">>}

CalIdle == [pc |-> "idle"]

\* ------------------------------------------------- the playlist monitor
VideoIds == 1..NumVideos

\* the file processed_videos.json: missing, readable with a list of ids, or
\* unreadable
NoFile == [state |-> "missing", ids |-> {}]

\* _load_processed_videos
LoadProcessedVideos(file) == IF file.state = "readable" THEN file.ids ELSE {}

\* _save_processed_videos: the file is rewritten, or the open failed and it
\* is as before, or the write failed after truncation; the error is only
\* logged
SaveProcessedVideos(file, processed_videos, persist) ==
    IF persist = "written" THEN [state |-> "readable", ids |-> processed_videos]
    ELSE IF persist = "open_failed" THEN file
    ELSE [state |-> "unreadable", ids |-> {}]

PersistOutcomes == {"written", "open_failed", "write_failed"}

\* check_for_new_videos: the listed videos that are not processed, in
\* listing order
CheckForNewVideos(videos, processed_videos) ==
    SelectSeq(videos, LAMBDA video : video.video_id \notin processed_videos)

\* process_video that marks the video whatever the metadata fetch gave
ProcessVideoMarkingFailures(processed_videos, file, video_data, metadata, save, persist) ==
    [kind |-> "return", fetched |-> metadata = "found",
     saved |-> metadata = "found" /\ save = "saved",
     processed_videos |-> processed_videos \cup {video_data.video_id},
     file |-> SaveProcessedVideos(file, processed_videos \cup {video_data.video_id}, persist)]

\* process_video: metadata, transcript, save, mark. metadata is what
\* get_video_metadata did (found, {} after an HttpError or for no items, or
\* another exception), save what save_video_data did
ProcessVideo(processed_videos, file, video_data, metadata, save, persist) ==
    IF metadata = "raise"
    THEN [kind |-> "raise", fetched |-> FALSE, saved |-> FALSE,
          processed_videos |-> processed_videos, file |-> file]
    ELSE IF metadata = "empty"
    THEN [kind |-> "return", fetched |-> FALSE, saved |-> FALSE,
          processed_videos |-> processed_videos, file |-> file]
    ELSE IF save = "raise"
    THEN [kind |-> "raise", fetched |-> TRUE, saved |-> FALSE,
          processed_videos |-> processed_videos, file |-> file]
    ELSE [kind |-> "return", fetched |-> TRUE, saved |-> TRUE,
          processed_videos |-> processed_videos \cup {video_data.video_id},
          file |-> SaveProcessedVideos(file, processed_videos \cup {video_data.video_id},
                                       persist)]

MetadataOutcomes == {"found", "empty", "raise"}
SaveOutcomes == {"saved", "raise"}

\* the listings get_playlist_videos returns: the playlist's items in order,
\* the same video possibly more than once, possibly cut short by an HttpError
Listings == SeqsUpTo({[video_id |-> v] : v \in VideoIds}, MaxListing)

NoCall == [video_id |-> 0, metadata |-> "none", before |-> {}]

\* a monitor just constructed over the file
NewMonitor(file, fetched, saved) ==
    [pc |-> "check",
     processed_videos |-> LoadProcessedVideos(file),
     file |-> file,
     videos |-> <<>>,            \* the last listing
     reported |-> <<>>,          \* what the last check returned
     new_videos |-> <<>>,        \* what of it is still to be processed
     saves |-> [v \in VideoIds |-> 0],  \* save_video_data completions, this run
     last |-> NoCall,            \* the last process_video call
     failed |-> {},              \* metadata fetch failed, this cycle
     savedCycle |-> {},          \* saved, this cycle
     failedPrev |-> {},          \* failed and not saved, the cycle before
     everFetched |-> fetched,    \* metadata was fetched, any run
     everSaved |-> saved]        \* data was saved, any run

\* ------------------------------------------------------------- the state
VARIABLES
    gmaps,       \* the server's module-level client is initialised
    pc,          \* "idle", "pending" (a call was made), "done" (it returned)
    entry,       \* the entry point called: "server", "tool", "link", "directions", "agent", "method"
    request,     \* its arguments
    response,    \* what the caller got: a returned value or a raised exception
    provider,    \* what gmaps.directions did for this request
    http,        \* what the wrapper's requests met: the first, then the link requests
    gmapsCalls,  \* the gmaps.directions calls made for this request
    httpCalls,   \* the methods the wrapper posted for this request
    reqs,        \* two requests the server has in hand at once: where each handler is
    locals,      \* the local variables of the handler invocations, by frame
    cal,         \* the calendar tool: its call, what the server did, the events returned
    mon          \* the playlist monitor: its fields and where monitor_playlist is

vars == <<gmaps, pc, entry, request, response, provider, http, gmapsCalls, httpCalls,
          reqs, locals, cal, mon>>

NoRequest == [none |-> TRUE]
NoResponse == [kind |-> "none"]

\* the server was started with GOOGLE_MAPS_API_KEY set: the client exists
Init ==
    /\ gmaps = TRUE
    /\ pc = "idle"
    /\ entry = "none"
    /\ request = NoRequest
    /\ response = NoResponse
    /\ provider = NoProvider
    /\ http = <<>>
    /\ gmapsCalls = <<>>
    /\ httpCalls = <<>>
    /\ reqs = [r \in Requests |-> IdleRequest]
    /\ locals = [f \in Requests |-> NoLocals]
    /\ cal = CalIdle
    /\ mon = NewMonitor(NoFile, {}, {})

\* a client posts generate_itinerary_route to /mcp/run
PostItinerary ==
    \E exps \in SeqsUpTo(ExpPool, MaxExp), start \in StartPool,
       mode \in ModePool, optimize \in BOOLEAN :
        /\ pc = "idle"
        /\ pc' = "pending"
        /\ entry' = "server"
        /\ request' = [experiences |-> exps, start_location |-> start, mode |-> mode, optimize |-> optimize]
        /\ UNCHANGED <<gmaps, response, provider, http, gmapsCalls, httpCalls, reqs, locals, cal, mon>>

\* run_mcp_method answers it; gmaps.directions does something only if the
\* handler gets as far as calling it
RunMcpItinerary ==
    /\ pc = "pending" /\ entry = "server"
    /\ LET unasked == RunMcpMethod(gmaps, "generate_itinerary_route", request, NoProvider)
       IN  \E p \in (IF unasked.calls = <<>> THEN {NoProvider}
                     ELSE ProviderOutcomes(Len(ExtractWaypoints(request.experiences)),
                                           request.optimize)) :
              LET r == RunMcpMethod(gmaps, "generate_itinerary_route", request, p)
              IN  /\ response' = [kind |-> "return",
                                  data |-> [f \in DOMAIN r \ {"calls"} |-> r[f]]]
                  /\ gmapsCalls' = r.calls
                  /\ provider' = p
    /\ pc' = "done"
    /\ UNCHANGED <<gmaps, entry, request, http, httpCalls, reqs, locals, cal, mon>>

\* an agent calls the maps.itinerary_route tool
CallItineraryTool ==
    \E origin \in StartPool, dests \in SeqsUpTo(DestPool, MaxExp), mode \in ModePool :
        /\ pc = "idle"
        /\ pc' = "pending"
        /\ entry' = "tool"
        /\ request' = [origin |-> origin, destinations |-> dests, mode |-> mode]
        /\ UNCHANGED <<gmaps, response, provider, http, gmapsCalls, httpCalls, reqs, locals, cal, mon>>

\* maps_itinerary_route runs
RunItineraryTool ==
    /\ pc = "pending" /\ entry = "tool"
    /\ \E h \in HttpOutcomes :
       \E links \in (IF h = "answered" \/ request.destinations = <<>> THEN {<<>>}
                     ELSE [1..(Len(request.destinations) + 1) -> LinkOutcomes]) :
          LET r == MapsItineraryRoute(gmaps, request.origin, request.destinations,
                                      request.mode, h, links)
          IN  /\ response' = [f \in DOMAIN r \ {"posts"} |-> r[f]]
              /\ httpCalls' = r.posts
              /\ http' = <<h>> \o links
    /\ pc' = "done"
    /\ UNCHANGED <<gmaps, entry, request, provider, gmapsCalls, reqs, locals, cal, mon>>

\* an agent calls the maps.generate_shareable_link tool
CallLinkTool ==
    \E origin \in DestPool \cup {LocStart}, dest \in DestPool,
       wps \in SeqsUpTo(DestPool, MaxExp - 1) :
        /\ pc = "idle"
        /\ pc' = "pending"
        /\ entry' = "link"
        /\ request' = [origin |-> origin, destination |-> dest, waypoints |-> wps]
        /\ UNCHANGED <<gmaps, response, provider, http, gmapsCalls, httpCalls, reqs, locals, cal, mon>>

\* maps_generate_shareable_link runs
RunLinkTool ==
    /\ pc = "pending" /\ entry = "link"
    /\ \E h \in HttpOutcomes :
          /\ response' = [kind |-> "return",
                          data |-> MapsGenerateShareableLink(gmaps, request.origin,
                                       request.destination, request.waypoints, h)]
          /\ http' = <<h>>
    /\ httpCalls' = <<"generate_shareable_link">>
    /\ pc' = "done"
    /\ UNCHANGED <<gmaps, entry, request, provider, gmapsCalls, reqs, locals, cal, mon>>

\* a client posts directions to /mcp/run
PostDirections ==
    \E origin \in StartPool, dest \in DestPool, mode \in ModePool,
       wps \in SeqsUpTo({LocIsland, LocWharf}, MaxExp - 1) :
        /\ pc = "idle"
        /\ pc' = "pending"
        /\ entry' = "directions"
        /\ request' = [origin |-> origin, destination |-> dest, mode |-> mode,
                       waypoints |-> wps, optimize_waypoints |-> FALSE]
        /\ UNCHANGED <<gmaps, response, provider, http, gmapsCalls, httpCalls, reqs, locals, cal, mon>>

\* run_mcp_method answers it
RunMcpDirections ==
    /\ pc = "pending" /\ entry = "directions"
    /\ LET unasked == RunMcpMethod(gmaps, "directions", request, NoProvider)
       IN  \E p \in (IF unasked.calls = <<>> THEN {NoProvider}
                     ELSE ProviderOutcomes(Len(request.waypoints) + 1, FALSE)) :
              LET r == RunMcpMethod(gmaps, "directions", request, p)
              IN  /\ response' = [kind |-> "return",
                                  data |-> [f \in DOMAIN r \ {"calls"} |-> r[f]]]
                  /\ gmapsCalls' = r.calls
                  /\ provider' = p
    /\ pc' = "done"
    /\ UNCHANGED <<gmaps, entry, request, http, httpCalls, reqs, locals, cal, mon>>

\* an agent calls MapsMCPTool.generate_itinerary_route
CallMapsMCPTool ==
    \E exps \in SeqsUpTo(ExpPool, MaxToolExp), start \in StartPool,
       mode \in ModePool, optimize \in BOOLEAN :
        /\ pc = "idle"
        /\ pc' = "pending"
        /\ entry' = "agent"
        /\ request' = [experiences |-> exps, start_location |-> start, mode |-> mode, optimize |-> optimize]
        /\ UNCHANGED <<gmaps, response, provider, http, gmapsCalls, httpCalls, reqs, locals, cal, mon>>

\* MapsMCPTool.generate_itinerary_route runs: its request is answered by the
\* server, whose handler may call gmaps.directions, or it is not
RunMapsMCPTool ==
    /\ pc = "pending" /\ entry = "agent"
    /\ \E h \in HttpOutcomes :
       LET unasked == MapsMCPToolItineraryRoute(gmaps, request.experiences,
                          request.start_location, request.mode, request.optimize,
                          h, NoProvider)
       IN  \E p \in (IF unasked.calls = <<>> THEN {NoProvider}
                     ELSE ProviderOutcomes(Len(ExtractWaypoints(request.experiences)),
                                           request.optimize)) :
              LET r == MapsMCPToolItineraryRoute(gmaps, request.experiences,
                           request.start_location, request.mode, request.optimize, h, p)
              IN  /\ response' = [kind |-> "return", data |-> r.data]
                  /\ gmapsCalls' = r.calls
                  /\ httpCalls' = r.posts
                  /\ provider' = p
                  /\ http' = <<h>>
    /\ pc' = "done"
    /\ UNCHANGED <<gmaps, entry, request, reqs, locals, cal, mon>>

\* a client posts one of the other methods, or a method the server does not
\* know, to /mcp/run
PostMethod ==
    \E method \in LookupMethods \cup {"route", "generate_shareable_link"},
       required \in {None, LocBridge} :
        /\ pc = "idle"
        /\ pc' = "pending"
        /\ entry' = "method"
        /\ request' = [method |-> method, required |-> required]
        /\ UNCHANGED <<gmaps, response, provider, http, gmapsCalls, httpCalls, reqs, locals, cal, mon>>

\* run_mcp_method answers it
RunMcpLookup ==
    /\ pc = "pending" /\ entry = "method"
    /\ LET unasked == RunMcpMethod(gmaps, request.method, request, NoProvider)
       IN  \E p \in (IF unasked.calls = <<>> THEN {NoProvider} ELSE LookupOutcomes) :
              LET r == RunMcpMethod(gmaps, request.method, request, p)
              IN  /\ response' = [kind |-> "return",
                                  data |-> [f \in DOMAIN r \ {"calls"} |-> r[f]]]
                  /\ gmapsCalls' = r.calls
                  /\ provider' = p
    /\ pc' = "done"
    /\ UNCHANGED <<gmaps, entry, request, http, httpCalls, reqs, locals, cal, mon>>

\* the caller has its answer; nothing of the request is kept
Finish ==
    /\ pc = "done"
    /\ pc' = "idle"
    /\ entry' = "none"
    /\ request' = NoRequest
    /\ response' = NoResponse
    /\ provider' = NoProvider
    /\ http' = <<>>
    /\ gmapsCalls' = <<>>
    /\ httpCalls' = <<>>
    /\ UNCHANGED <<gmaps, reqs, locals, cal, mon>>

Next ==
    \/ PostItinerary
    \/ RunMcpItinerary
    \/ CallItineraryTool
    \/ RunItineraryTool
    \/ CallLinkTool
    \/ RunLinkTool
    \/ PostDirections
    \/ RunMcpDirections
    \/ CallMapsMCPTool
    \/ RunMapsMCPTool
    \/ PostMethod
    \/ RunMcpLookup
    \/ Finish

Spec == Init /\ [][Next]_vars

\* ------------------------------------------- a server without an API key
\* the server process is started again without GOOGLE_MAPS_API_KEY: the
\* module-level client is None from then on
StartWithoutKey ==
    /\ pc = "idle"
    /\ gmaps
    /\ gmaps' = FALSE
    /\ UNCHANGED <<pc, entry, request, response, provider, http, gmapsCalls, httpCalls,
                   reqs, locals, cal, mon>>

NextDispatcher ==
    \/ Next
    \/ StartWithoutKey

SpecDispatcher == Init /\ [][NextDispatcher]_vars

\* ----------------------------------- two itinerary requests in the server
\* What a handler does between two points where another request may run is
\* one step: reading the arguments and extracting the waypoints, the
\* provider call, composing the answer. (The handlers have no await of their
\* own, so the event loop switches no more often than this.)
seq == <<gmaps, pc, entry, request, response, provider, http, gmapsCalls, httpCalls,
        cal, mon>>

\* run_mcp_method receives request r and looks at the client
ReceiveRequest(r) ==
    /\ reqs[r].pc = "idle"
    /\ \E a \in ConcurrentRequests :
          reqs' = [reqs EXCEPT ![r] =
                     IF ~gmaps
                     THEN [IdleRequest EXCEPT !.pc = "done", !.args = a,
                              !.response = [success |-> FALSE,
                                  error |-> "Google Maps client not initialized - check API key"]]
                     ELSE [IdleRequest EXCEPT !.pc = "extract", !.args = a]]
    /\ UNCHANGED <<locals, seq>>

\* the handler reads the arguments, validates them and extracts the waypoints
ExtractStep(r) ==
    /\ reqs[r].pc = "extract"
    /\ LET experiences == reqs[r].args.experiences
           start_location == reqs[r].args.start_location
       IN  IF experiences = <<>> \/ ~Truthy(start_location)
           THEN /\ reqs' = [reqs EXCEPT ![r].pc = "done",
                               ![r].response = [success |-> FALSE,
                                   error |-> "experiences and start_location parameters are required"]]
                /\ UNCHANGED locals
           ELSE /\ locals' = [locals EXCEPT ![Frame(r)].waypoints = ExtractWaypoints(experiences)]
                /\ IF ExtractWaypoints(experiences) = <<>>
                   THEN reqs' = [reqs EXCEPT ![r].pc = "done",
                               ![r].response = [success |-> FALSE,
                                   error |-> "No valid locations found in experiences"]]
                   ELSE reqs' = [reqs EXCEPT ![r].pc = "call"]
    /\ UNCHANGED seq

\* the handler calls gmaps.directions for its waypoints and gets an answer
DirectionsStep(r) ==
    /\ reqs[r].pc = "call"
    /\ \E p \in ProviderOutcomes(Len(locals[Frame(r)].waypoints), reqs[r].args.optimize) :
          LET met == \E o \in Requests \ {r} : reqs[o].pc \in {"extract", "call", "compose"}
          IN  IF ProviderFailed(p)
              THEN /\ reqs' = [reqs EXCEPT ![r].pc = "done", ![r].provider = p,
                                  ![r].overlapped = met,
                                  ![r].response = [success |-> FALSE, error |-> "provider error"]]
                   /\ UNCHANGED locals
              ELSE IF p.kind = "empty"
              THEN /\ reqs' = [reqs EXCEPT ![r].pc = "done", ![r].provider = p,
                                  ![r].overlapped = met,
                                  ![r].response = [success |-> TRUE,
                                      data |-> [found |-> FALSE, message |-> "No route found"]]]
                   /\ UNCHANGED locals
              ELSE /\ reqs' = [reqs EXCEPT ![r].pc = "compose", ![r].provider = p,
                                  ![r].overlapped = met]
                   /\ locals' = [locals EXCEPT ![Frame(r)].route = p]
    /\ UNCHANGED seq

\* the handler composes the answer from its local variables
ComposeStep(r) ==
    /\ reqs[r].pc = "compose"
    /\ reqs' = [reqs EXCEPT ![r].pc = "done",
                   ![r].response = [success |-> TRUE,
                       data |-> ComposeItinerary(reqs[r].args.experiences,
                                    reqs[r].args.start_location, reqs[r].args.mode,
                                    locals[Frame(r)].waypoints, locals[Frame(r)].route)]]
    /\ UNCHANGED <<locals, seq>>

NextConcurrent ==
    \E r \in Requests :
        \/ ReceiveRequest(r)
        \/ ExtractStep(r)
        \/ DirectionsStep(r)
        \/ ComposeStep(r)

SpecConcurrent == Init /\ [][NextConcurrent]_vars

\* --------------------------------------------- the calendar tool, called
\* an agent calls calendar.create_itinerary_events
CallCreateItineraryEvents ==
    /\ cal.pc = "idle"
    /\ \E itinerary \in CalItineraries, participants \in CalParticipants :
        cal' = [pc |-> "pending", itinerary |-> itinerary,
                participants |-> participants, base_date |-> CalBaseDate]
    /\ UNCHANGED <<gmaps, pc, entry, request, response, provider, http, gmapsCalls,
                   httpCalls, reqs, locals, mon>>

\* calendar_create_itinerary_events runs: the post is answered or not
RunCreateItineraryEvents ==
    /\ cal.pc = "pending"
    /\ \E answer \in CalendarAnswers :
        cal' = [cal EXCEPT !.pc = "done"] @@
               [answer |-> answer,
                events |-> CalendarCreateItineraryEvents(cal.itinerary, cal.participants,
                                                         cal.base_date, answer)]
    /\ UNCHANGED <<gmaps, pc, entry, request, response, provider, http, gmapsCalls,
                   httpCalls, reqs, locals, mon>>

\* the agent has the events
ReturnItineraryEvents ==
    /\ cal.pc = "done"
    /\ cal' = CalIdle
    /\ UNCHANGED <<gmaps, pc, entry, request, response, provider, http, gmapsCalls,
                   httpCalls, reqs, locals, mon>>

NextCalendar ==
    \/ CallCreateItineraryEvents
    \/ RunCreateItineraryEvents
    \/ ReturnItineraryEvents

SpecCalendar == Init /\ [][NextCalendar]_vars

\* ------------------------------------------- the playlist monitor, running
\* monitor_playlist calls check_for_new_videos: the listing is read and
\* filtered, or get_playlist_videos raised something other than an HttpError
\* and the monitor ends
CheckStep ==
    /\ mon.pc = "check"
    /\ \/ \E videos \in Listings :
            LET new_videos == CheckForNewVideos(videos, mon.processed_videos)
            IN mon' = [mon EXCEPT !.videos = videos,
                                  !.reported = new_videos,
                                  !.new_videos = new_videos,
                                  !.failedPrev = mon.failed \ mon.savedCycle,
                                  !.failed = {},
                                  !.savedCycle = {},
                                  !.last = NoCall,
                                  !.pc = IF new_videos = <<>> THEN "sleep" ELSE "process"]
       \/ mon' = [mon EXCEPT !.pc = "stopped", !.last = NoCall]
    /\ UNCHANGED <<gmaps, pc, entry, request, response, provider, http, gmapsCalls,
                   httpCalls, reqs, locals, cal>>

\* monitor_playlist calls process_video on the next new video
ProcessStep ==
    /\ mon.pc = "process"
    /\ mon.new_videos /= <<>>
    /\ \E metadata \in MetadataOutcomes, save \in SaveOutcomes, persist \in PersistOutcomes :
        LET video_data == Head(mon.new_videos)
            video_id == video_data.video_id
            out == ProcessVideo(mon.processed_videos, mon.file, video_data,
                                metadata, save, persist)
        IN mon' = [mon EXCEPT
                    !.processed_videos = out.processed_videos,
                    !.file = out.file,
                    !.new_videos = Tail(mon.new_videos),
                    !.saves[video_id] = IF out.saved THEN @ + 1 ELSE @,
                    !.last = [video_id |-> video_id, metadata |-> metadata,
                              before |-> mon.processed_videos],
                    !.failed = IF metadata = "empty" THEN @ \cup {video_id} ELSE @,
                    !.savedCycle = IF out.saved THEN @ \cup {video_id} ELSE @,
                    !.everFetched = IF out.fetched THEN @ \cup {video_id} ELSE @,
                    !.everSaved = IF out.saved THEN @ \cup {video_id} ELSE @,
                    !.pc = IF out.kind = "raise" THEN "stopped"
                           ELSE IF Tail(mon.new_videos) = <<>> THEN "sleep"
                           ELSE "process"]
    /\ UNCHANGED <<gmaps, pc, entry, request, response, provider, http, gmapsCalls,
                   httpCalls, reqs, locals, cal>>

\* time.sleep(check_interval) returns, or the user interrupts it; the
\* iteration's new_videos is not read again
SleepStep ==
    /\ mon.pc = "sleep"
    /\ \E interrupted \in BOOLEAN :
        mon' = [mon EXCEPT !.pc = IF interrupted THEN "stopped" ELSE "check",
                           !.videos = <<>>, !.reported = <<>>, !.last = NoCall]
    /\ UNCHANGED <<gmaps, pc, entry, request, response, provider, http, gmapsCalls,
                   httpCalls, reqs, locals, cal>>

\* the monitor is started again over the same output directory
StartMonitor ==
    /\ mon.pc = "stopped"
    /\ mon' = NewMonitor(mon.file, mon.everFetched, mon.everSaved)
    /\ UNCHANGED <<gmaps, pc, entry, request, response, provider, http, gmapsCalls,
                   httpCalls, reqs, locals, cal>>

NextMonitor ==
    \/ CheckStep
    \/ ProcessStep
    \/ SleepStep
    \/ StartMonitor

SpecMonitor == Init /\ [][NextMonitor]_vars



\* ------------------------------------------------ reading the answers
\* run_mcp_method answered a generate_itinerary_route request
ServerDone == pc = "done" /\ entry = "server"
\* maps_itinerary_route ended
ToolDone == pc = "done" /\ entry = "tool"

\* the server returned an itinerary
ServerItinerary == ServerDone /\ response.data.success /\ response.data.data.found
\* the tool returned the itinerary of its fallback path
ToolItinerary ==
    ToolDone /\ response.kind = "return" /\ "fallback" \in DOMAIN response.data
Returned == ServerItinerary \/ ToolItinerary

\* the itinerary, its legs and the start it was asked for
Route == IF entry = "server" THEN response.data.data ELSE response.data
Legs == Route.legs
Start == IF entry = "server" THEN request.start_location ELSE request.origin

\* an experience resolves: it names a non-empty location
Resolves(exp) ==
    IF exp.isdict
    THEN \E v \in {exp.location, exp.address, exp.name} : v /= None /\ v /= <<>>
    ELSE exp.text /= <<>>

\* the experiences (destinations) of the request, and those that resolve
Requested == IF entry = "server" THEN request.experiences ELSE request.destinations
NumRequested == Len(Requested)
NumResolvable ==
    IF entry = "server"
    THEN Cardinality({i \in 1..Len(request.experiences) : Resolves(request.experiences[i])})
    ELSE Cardinality({i \in 1..Len(request.destinations) : request.destinations[i] /= <<>>})

\* a valid request: a non-empty start and at least one resolvable experience
ValidRequest == Start /= None /\ Start /= <<>> /\ NumResolvable >= 1

\* leg 1 starts at the start location, every later leg where the one before ended
Chained(legs, start) ==
    \A i \in 1..Len(legs) :
        legs[i].origin = (IF i = 1 THEN start ELSE legs[i - 1].destination)

\* the locations a link lists: the path behind the base URL, cut at the
\* query suffix, split at "/", each piece unescaped
Unquote(tok) ==
    CASE tok = "+"   -> " "
      [] tok = "%2C" -> ","
      [] tok = "%2F" -> "/"
      [] OTHER       -> tok

RECURSIVE SplitPath(_)
SplitPath(toks) ==
    IF toks = <<>> THEN << <<>> >>
    ELSE LET r == SplitPath(Tail(toks))
         IN  IF Head(toks) = "/" THEN << <<>> >> \o r
             ELSE << <<Unquote(Head(toks))>> \o r[1] >> \o Tail(r)

LinkLocations(link) ==
    IF link = <<>> \/ link[1] /= BaseUrl THEN <<>>
    ELSE LET cut == {i \in 1..Len(link) : link[i] \in {RouteSuffix, LegSuffix}}
             last == IF cut = {} THEN Len(link)
                     ELSE (CHOOSE i \in cut : \A j \in cut : i <= j) - 1
             segs == SplitPath(SubSeq(link, 2, last))
         IN  IF segs[Len(segs)] = <<>> THEN SubSeq(segs, 1, Len(segs) - 1) ELSE segs

\* ------------------------------------------------------------ C1
\* C1 as stated: whenever the provider yields a route for a request with n
\* experiences and a non-empty start, the returned itinerary has exactly n
\* legs, and its legs are chained from the start location.
C1_LegPerExperience ==
    ServerItinerary /\ NumRequested >= 1 /\ Start /= <<>>
        => Len(Legs) = NumRequested /\ Chained(Legs, Start)

\* C1 amended: whenever the provider yields a route for a request with a
\* non-empty start, the returned itinerary has exactly one leg per
\* resolvable experience, and its legs are chained from the start location.
C1_LegPerResolvableExperience ==
    ServerItinerary /\ NumRequested >= 1 /\ Start /= <<>>
        => Len(Legs) = NumResolvable /\ Chained(Legs, Start)

\* an itinerary for three experiences of which one was dropped
C1_Witness ==
    ServerItinerary /\ NumRequested = 3 /\ NumResolvable = 2 /\ Len(Legs) = 2

\* ------------------------------------------------------------ C2
\* the raw values of the legs an itinerary lists, added up; a listed leg
\* that carries no raw value adds nothing
RECURSIVE ListedDistance(_)
ListedDistance(legs) ==
    IF legs = <<>> THEN 0
    ELSE (IF "distance_value" \in DOMAIN Head(legs) THEN Head(legs).distance_value
          ELSE IF "distance" \in DOMAIN Head(legs) THEN Head(legs).distance.tenths
          ELSE 0) + ListedDistance(Tail(legs))

RECURSIVE ListedDuration(_)
ListedDuration(legs) ==
    IF legs = <<>> THEN 0
    ELSE (IF "duration_value" \in DOMAIN Head(legs) THEN Head(legs).duration_value
          ELSE IF "duration" \in DOMAIN Head(legs) THEN Head(legs).duration.value
          ELSE 0) + ListedDuration(Tail(legs))

\* C2: in every returned itinerary the raw total distance is the sum of the
\* raw distances of the legs it lists, and the raw total duration the sum of
\* their raw durations, however many legs the provider answered with.
C2_TotalsAreSumsOfListedLegs ==
    /\ ServerItinerary =>
          /\ Route.total_distance_value = ListedDistance(Legs)
          /\ Route.total_duration_value = ListedDuration(Legs)
    /\ ToolItinerary =>
          /\ Route.total_distance.tenths = ListedDistance(Legs)
          /\ Route.total_duration.value = ListedDuration(Legs)

\* ------------------------------------------------------------ C3
\* a complete itinerary: legs, each with a link, and a complete_route_link
CompleteItinerary ==
    /\ Returned
    /\ Len(Legs) >= 1
    /\ \A i \in 1..Len(Legs) : Legs[i].shareable_link /= <<>>
    /\ Route.complete_route_link /= <<>>

\* C3: for a valid request (non-empty start, at least one resolvable
\* experience) the caller always receives a complete itinerary, whatever the
\* provider does: nothing is raised, no error and no "no route" is returned.
C3_AlwaysAnItinerary ==
    (ServerDone \/ ToolDone) /\ gmaps /\ ValidRequest => CompleteItinerary

\* ------------------------------------------------------------ C4
\* the provider call of the request failed entirely
ProviderFailedEntirely ==
    \/ ServerDone /\ provider.kind \in {"raise", "timeout", "empty"}
    \/ ToolDone /\ http[1] /= "answered"

\* the itinerary is marked degraded (the tool's itinerary says fallback)
MarkedDegraded ==
    \/ "is_degraded" \in DOMAIN Route /\ Route.is_degraded
    \/ "fallback" \in DOMAIN Route /\ Route.fallback

\* C4: when the provider call fails entirely for a valid request, the
\* returned itinerary has one leg per experience, every leg is marked
\* estimated and has a non-empty shareable_link, and the route is marked
\* degraded.
C4_DegradedItineraryIsComplete ==
    ProviderFailedEntirely /\ ValidRequest =>
        /\ Returned
        /\ Len(Legs) = NumResolvable
        /\ \A i \in 1..Len(Legs) :
              /\ "is_estimated" \in DOMAIN Legs[i] /\ Legs[i].is_estimated
              /\ Legs[i].shareable_link /= <<>>
        /\ MarkedDegraded

\* ------------------------------------------------------------ C5
\* the caller was given an error instead of an itinerary
Rejected ==
    \/ ServerDone /\ ~response.data.success
    \/ ToolDone /\ (response.kind = "raise"
                    \/ ("success" \in DOMAIN response.data /\ ~response.data.success))

\* C5: a request with an empty start location, with no experiences or with
\* none that resolves is rejected, and no request to the provider and no
\* network request was made for it.
C5_InvalidRequestFailsFast ==
    (ServerDone \/ ToolDone) /\ ~ValidRequest =>
        Rejected /\ gmapsCalls = <<>> /\ httpCalls = <<>>

\* ------------------------------------------------------------ C6
\* the waypoints of the request in the provider's travel order: the interior
\* ones permuted by order, the last one staying last
TravelOrder(waypoints, order) ==
    [i \in 1..Len(waypoints) |->
        IF i < Len(waypoints) THEN waypoints[order[i] + 1] ELSE waypoints[i]]

\* the resolvable experiences of the request, as (location, name)
RECURSIVE ResolvedOf(_)
ResolvedOf(exps) ==
    IF exps = <<>> THEN <<>>
    ELSE LET e == Head(exps)
             loc == IF ~e.isdict THEN e.text
                    ELSE IF e.location /= None /\ e.location /= <<>> THEN e.location
                    ELSE IF e.address /= None /\ e.address /= <<>> THEN e.address
                    ELSE e.name
             nm == IF ~e.isdict THEN e.text ELSE IF e.name = None THEN loc ELSE e.name
         IN  (IF Resolves(e) THEN <<[location |-> loc, name |-> nm]>> ELSE <<>>)
                 \o ResolvedOf(Tail(exps))

\* C6: when optimisation is requested and the provider answers with an order
\* of the interior waypoints, the legs are in that travel order: leg i goes
\* to, and is named after, the waypoint the provider put at position i.
C6_LegsInTravelOrder ==
    ServerItinerary /\ request.optimize
      /\ Len(provider.waypoint_order) = Len(Legs) - 1
      /\ Len(provider.waypoint_order) >= 2
        => LET travel == TravelOrder(ResolvedOf(request.experiences),
                                     provider.waypoint_order)
           IN  \A i \in 1..Len(Legs) :
                  /\ Legs[i].destination = travel[i].location
                  /\ Legs[i].experience_name = travel[i].name

\* ------------------------------------------------------------ C7
\* C7: when the provider answers with fewer legs than there are waypoints,
\* the legs it answered for carry its metrics, the others carry estimated
\* distance and duration values, and the result is marked degraded.
C7_PartialDataIsFilledIn ==
    ServerItinerary /\ Len(provider.legs) < Len(Legs) =>
        /\ \A i \in 1..Len(Legs) :
              /\ "distance_value" \in DOMAIN Legs[i]
              /\ "duration_value" \in DOMAIN Legs[i]
              /\ i <= Len(provider.legs) =>
                    /\ Legs[i].distance_value = provider.legs[i].distance.value
                    /\ Legs[i].duration_value = provider.legs[i].duration.value
        /\ MarkedDegraded

\* ------------------------------------------------------------ C8
\* the stops of the returned legs: the start, then each leg's destination
Traversal == <<Start>> \o [i \in 1..Len(Legs) |-> Legs[i].destination]

\* C8: complete_route_link lists the start, every waypoint and the end, each
\* once and in the order the returned legs traverse them, also when the
\* provider is unavailable.
C8_CompleteLinkListsTraversal ==
    Returned /\ ValidRequest => LinkLocations(Route.complete_route_link) = Traversal

\* ------------------------------------------------------------ C9
\* C9: every leg of every returned itinerary has a non-empty shareable_link
\* that lists that leg's origin and then its destination, whatever the link
\* service answers.
C9_LegLinkFromOriginToDestination ==
    Returned /\ ValidRequest =>
        \A i \in 1..Len(Legs) :
            /\ Legs[i].shareable_link /= <<>>
            /\ LinkLocations(Legs[i].shareable_link)
                  = <<Legs[i].origin, Legs[i].destination>>

\* ------------------------------------------------------------ C10
\* C10: building a link for a non-empty origin and destination returns a
\* link and makes no network request.
C10_LinkBuilderDoesNoIO ==
    pc = "done" /\ entry = "link"
      /\ request.origin /= <<>> /\ request.destination /= <<>>
      /\ (\A i \in 1..Len(request.waypoints) : request.waypoints[i] /= <<>>) =>
        /\ response.kind = "return"
        /\ response.data /= <<>>
        /\ httpCalls = <<>>

\* ------------------------------------------------------------ C11
\* run_mcp_method answered a directions request with a route
DirectionsDone == pc = "done" /\ entry = "directions"
DirectionsRoute ==
    DirectionsDone /\ response.data.success /\ response.data.data.found

\* MapsMCPTool.generate_itinerary_route ended, and it ended with an itinerary
AgentDone == pc = "done" /\ entry = "agent"
AgentItinerary ==
    AgentDone /\ "found" \in DOMAIN response.data /\ response.data.found

\* the deep links handed to the caller of the finished request
GeneratedLinks ==
    IF ServerItinerary \/ ToolItinerary
    THEN {Legs[i].shareable_link : i \in 1..Len(Legs)} \cup {Route.complete_route_link}
    ELSE IF AgentItinerary
    THEN {response.data.legs[i].shareable_link : i \in 1..Len(response.data.legs)}
            \cup {response.data.complete_route_link}
    ELSE IF DirectionsRoute
    THEN {response.data.data.shareable_link}
    ELSE {}

\* the value of a link's mode parameter: what follows "mode="; nothing when
\* the link has no such parameter
ModeParameter(link) ==
    LET at == {i \in 1..Len(link) : link[i] \in {RouteSuffix, LegSuffix}}
    IN  IF at = {} THEN <<>>
        ELSE SubSeq(link, (CHOOSE i \in at : TRUE) + 1, Len(link))

\* the mode a link is to carry for a requested mode
LinkModeFor(mode) ==
    IF mode = <<"driving">> \/ mode = <<"walking">> \/ mode = <<"bicycling">>
          \/ mode = <<"transit">>
    THEN mode ELSE <<"driving">>

\* C11: every deep link handed out (per leg and for the complete route)
\* carries a mode parameter that is the requested mode when that is driving,
\* walking, bicycling or transit, and driving for any other mode.
C11_LinksCarryRequestedMode ==
    \A link \in GeneratedLinks :
        link /= <<>> => ModeParameter(link) = LinkModeFor(request.mode)

\* ------------------------------------------------------------ C12
\* C12: a finished itinerary request with a non-empty start and a resolvable
\* experience made exactly one call to the routing provider (one
\* gmaps.directions call in the server, one request in a wrapper) and no
\* further routing or link request, whether the call succeeded or failed.
C12_OneProviderCall ==
    /\ ServerDone /\ ValidRequest => Len(gmapsCalls) = 1
    /\ ToolDone /\ ValidRequest => Len(httpCalls) = 1
    /\ AgentDone /\ request.start_location /= <<>>
          /\ (\E i \in 1..Len(request.experiences) : Resolves(request.experiences[i]))
          => Len(httpCalls) = 1 /\ Len(gmapsCalls) <= 1

\* ------------------------------------------------------------ C13
\* the provider call of the finished request timed out: gmaps.directions in
\* the server, the routing request of a wrapper
ProviderTimedOut ==
    \/ (ServerDone \/ AgentDone) /\ provider.kind = "timeout"
    \/ (ToolDone \/ AgentDone) /\ http[1] = "timeout"

\* the request of the finished call names a start and a resolvable experience
ValidItineraryRequest ==
    IF entry = "agent"
    THEN /\ request.start_location /= <<>>
         /\ \E i \in 1..Len(request.experiences) : Resolves(request.experiences[i])
    ELSE ValidRequest

\* the caller got an itinerary whose legs all carry a distance and a duration
ItineraryWithMetrics ==
    /\ Returned \/ AgentItinerary
    /\ LET legs == IF entry = "agent" THEN response.data.legs ELSE Legs
       IN  /\ Len(legs) >= 1
           /\ \A i \in 1..Len(legs) :
                 "distance" \in DOMAIN legs[i] /\ "duration" \in DOMAIN legs[i]

\* C13: a valid itinerary request whose provider call timed out has ended
\* with an itinerary of estimated legs, as after any other provider failure;
\* it is neither left pending nor answered with an error.
C13_TimeoutFallsThroughToEstimates ==
    (ServerDone \/ ToolDone \/ AgentDone) /\ ProviderTimedOut /\ ValidItineraryRequest
        => ItineraryWithMetrics

\* ------------------------------------------------------------ C14
\* C14: the total duration text of an itinerary the server returns shows
\* hours (total div 3600) and minutes ((total mod 3600) div 60) when the total
\* is at least 3600 seconds, and minutes only (total div 60) when it is less.
C14_DurationText ==
    ServerItinerary =>
        LET total == Route.total_duration_value
            text == Route.total_duration
        IN  IF total >= 3600
            THEN /\ text.form = "hm"
                 /\ text.h = total \div 3600
                 /\ text.m = (total % 3600) \div 60
            ELSE /\ text.form = "m"
                 /\ text.m = total \div 60

\* legs of 600, 900 and 500 seconds: 2000 seconds, shown as 33m
C14_Witness ==
    /\ ServerItinerary
    /\ [i \in 1..Len(provider.legs) |-> provider.legs[i].duration.value] = <<600, 900, 500>>
    /\ Route.total_duration_value = 2000
    /\ Route.total_duration.form = "m"
    /\ Route.total_duration.m = 33

\* ------------------------------------------------------------ C15
\* C15: the total distance text of an itinerary the server returns is in
\* miles when the total is at least 1609 meters, 1609 included, and in whole
\* meters when it is less.
C15_DistanceText ==
    ServerItinerary =>
        LET total == Route.total_distance_value
            text == Route.total_distance
        IN  IF total >= 1609
            THEN text.unit = "miles"
            ELSE text.unit = "meters" /\ text.value = total

\* ------------------------------------------------------------ C16
\* a leg is estimated: it is flagged so, or it does not carry the metrics of
\* a provider leg
LegEstimated(leg) ==
    \/ "is_estimated" \in DOMAIN leg /\ leg.is_estimated
    \/ "distance_value" \notin DOMAIN leg
    \/ "duration_value" \notin DOMAIN leg

\* C16: a returned itinerary is marked degraded exactly when at least one of
\* its legs is estimated.
C16_DegradedIffEstimatedLeg ==
    Returned => (MarkedDegraded <=> \E i \in 1..Len(Legs) : LegEstimated(Legs[i]))

\* ------------------------------------------------------------ C17
\* some experience of the request does not resolve
SomeUnresolvable ==
    \E i \in 1..Len(request.experiences) : ~Resolves(request.experiences[i])

DescriptionLabels(leg) ==
    IF "calendar_description" \in DOMAIN leg
    THEN [k \in 1..Len(leg.calendar_description) |-> leg.calendar_description[k].label]
    ELSE <<>>

\* C18: every leg of every returned itinerary, with or without provider
\* data, has a calendar_description of the same six lines: the experience
\* name, From, To, Distance, Duration and Directions, in that order.
C18_OneDescriptionFormat ==
    Returned =>
        \A i \in 1..Len(Legs) :
            DescriptionLabels(Legs[i])
                = <<"Travel to", "From", "To", "Distance", "Duration", "Directions">>

\* ------------------------------------------------------------ C19
\* the mode of the request is none of driving, walking, bicycling, transit
UnrecognizedMode ==
    request.mode \notin {<<"driving">>, <<"walking">>, <<"bicycling">>, <<"transit">>}

\* the routing request passes the handler's validation
RoutableRequest ==
    IF entry = "directions"
    THEN request.origin /= <<>> /\ request.destination /= <<>>
    ELSE ValidRequest

\* C19: a routing request (directions or itinerary) that passes validation
\* and whose mode is not recognized is put to the provider, and the mode of
\* that provider call is driving.
C19_UnrecognizedModeRoutedAsDriving ==
    (ServerDone \/ DirectionsDone) /\ RoutableRequest /\ UnrecognizedMode =>
        /\ Len(gmapsCalls) = 1
        /\ gmapsCalls[1].mode = <<"driving">>

\* ------------------------------------------------------------ C20
\* the answer run_mcp_method gives a request that runs alone, for the same
\* arguments and the same answer of the provider
AnswerAlone(args, p) ==
    LET a == RunMcpMethod(gmaps, "generate_itinerary_route", args, p)
    IN  [f \in DOMAIN a \ {"calls"} |-> a[f]]

\* C20: however the steps of two itinerary requests interleave, the answer
\* to each is the answer it gets when it runs alone with the same arguments
\* and the same provider answer.
C20_AnswerAsIfAlone ==
    \A r \in Requests :
        reqs[r].pc = "done" => reqs[r].response = AnswerAlone(reqs[r].args, reqs[r].provider)

\* two different requests, each at the provider while the other was in
\* hand, both answered with an itinerary
C20_Witness ==
    /\ \A r \in Requests :
          /\ reqs[r].pc = "done"
          /\ reqs[r].overlapped
          /\ reqs[r].response.success
          /\ reqs[r].response.data.found
    /\ reqs[1].args /= reqs[2].args

\* ------------------------------------------------------------ C21
\* the estimates of the legs of a fallback itinerary
Estimates(legs) ==
    [i \in 1..Len(legs) |-> <<legs[i].distance, legs[i].duration>>]

\* the estimates maps_itinerary_route gives for the same origin, destinations
\* and mode when its requests meet other outcomes
EstimatesUnder(h, links) ==
    Estimates(MapsItineraryRoute(gmaps, request.origin, request.destinations,
                                 request.mode, h, links).data.legs)

\* C21: the per-leg estimates of a fallback itinerary depend on the origin
\* and the destinations only (whatever the routing and link requests met,
\* the estimates are those the same request gets when the routing request
\* times out and no link request is answered), and from one leg to the next
\* neither the distance nor the duration estimate gets smaller.
C21_EstimatesDeterministicAndOrdered ==
    ToolItinerary =>
        /\ EstimatesUnder("timeout", [k \in 1..(Len(request.destinations) + 1) |->
                                          "http_error"]) = Estimates(Legs)
        /\ \A i \in 1..(Len(Legs) - 1) :
              /\ Legs[i + 1].distance.tenths >= Legs[i].distance.tenths
              /\ Legs[i + 1].duration.value >= Legs[i].duration.value

\* a fallback itinerary of three legs
C21_Witness ==
    /\ ToolItinerary /\ request.origin /= <<>>
    /\ Len(Legs) = 3 /\ Legs[3].distance.tenths > Legs[1].distance.tenths

\* ------------------------------------------------------------ C22
\* the provider kept the interior waypoints in the caller's order
NotReordered(order) == \A i \in 1..Len(order) : order[i] = i - 1

\* C22: optimized_order of a returned itinerary is empty when optimisation
\* was not requested and when the provider kept the caller's order; when it
\* is not empty it is a permutation of the interior waypoint indices 0..k-1.
C22_OptimizedOrder ==
    ServerItinerary =>
        LET order == Route.optimized_order
            k == Len(Legs) - 1
        IN  /\ ~request.optimize \/ NotReordered(provider.waypoint_order) => order = <<>>
            /\ order /= <<>> =>
                  /\ Len(order) = k
                  /\ \A j \in 0..(k - 1) : \E i \in 1..k : order[i] = j

\* ------------------------------------------------------------ C23
\* C23: in every returned itinerary, leg i goes to the location of the i-th
\* resolvable experience of the request and carries that experience's
\* display name (its name, or its location when it has no name).
C23_NameStaysWithLocation ==
    ServerItinerary =>
        LET kept == ResolvedOf(request.experiences)
        IN  /\ Len(Legs) = Len(kept)
            /\ \A i \in 1..Len(Legs) :
                  /\ Legs[i].destination = kept[i].location
                  /\ Legs[i].experience_name = kept[i].name

\* a named experience behind a dropped one and before an unnamed one
C23_Witness ==
    /\ ServerItinerary
    /\ Len(request.experiences) = 3
    /\ ~Resolves(request.experiences[1])
    /\ Len(Legs) = 2
    /\ Legs[1].experience_name = NameWharf /\ Legs[1].destination = LocWharf
    /\ Legs[2].experience_name = LocIsland /\ Legs[2].destination = LocIsland

\* ------------------------------------------------------------ C25
\* C25: in every returned itinerary the experience count (experience_count,
\* the itinerary summary and the count in calendar_master_description) is the
\* number of legs, also when experiences were dropped.
C25_CountIsNumberOfLegs ==
    ServerItinerary =>
        /\ Route.experience_count = Len(Legs)
        /\ Route.itinerary_summary = Len(Legs)
        /\ Route.calendar_master_description[1].value = Len(Legs)

\* ------------------------------------------------------------ C26
\* C26: a directions request with a non-empty origin and destination and at
\* least one waypoint, for which the provider finds a route, succeeds, and
\* its calendar summary gives the number of locations as the number of
\* waypoints plus 2.
C26_MultiStopDirections ==
    DirectionsDone /\ request.origin /= <<>> /\ request.destination /= <<>>
      /\ request.waypoints /= <<>>
      /\ provider.kind = "route" /\ provider.legs /= <<>> =>
        /\ response.data.success
        /\ response.data.data.calendar_summary
              = <<"Multi-stop route", Len(request.waypoints) + 2, "locations">>

\* ------------------------------------------------------------ C24
\* run_mcp_method answered a request
DispatcherDone == pc = "done" /\ entry \in {"server", "directions", "method"}

\* the method of that request, and whether the dispatcher has a handler for it
PostedMethod ==
    IF entry = "server" THEN "generate_itinerary_route"
    ELSE IF entry = "directions" THEN "directions"
    ELSE request.method
HasHandler ==
    PostedMethod \in {"geocode", "reverse_geocode", "search_places", "place_details",
                      "directions", "distance_matrix", "elevation",
                      "generate_itinerary_route"}

\* the selected handler, run on the request with the provider's answer,
\* returns (it does not raise)
HandlerReturns ==
    LET out == IF entry = "server" THEN HandleGenerateItineraryRoute(request, provider)
               ELSE IF entry = "directions" THEN HandleDirections(request, provider)
               ELSE HandleLookup(request, provider)
    IN  out.kind = "return"

CalendarDone == cal.pc = "done"
\* ... its fallback events, the server not having answered
CalendarFellBack == CalendarDone /\ cal.answer.kind /= "answered"
\* the itinerary has legs and no activities
LegsButNoActivities ==
    /\ cal.itinerary.isdict
    /\ "legs" \in DOMAIN cal.itinerary
    /\ cal.itinerary.legs /= <<>>
    /\ Get(cal.itinerary, "activities", <<>>) = <<>>

\* C27: when the calendar service is unavailable and the itinerary has legs
\* but no activities, there is exactly one fallback event per leg, in leg
\* order: event i has the location of leg i's destination and leg i's
\* shareable_link as its maps link (nothing where the leg has none).
C27_OneFallbackEventPerLeg ==
    (CalendarFellBack /\ LegsButNoActivities) =>
        LET legs == cal.itinerary.legs
            events == cal.events
        IN /\ Len(events) = Len(legs)
           /\ \A i \in 1..Len(legs) :
                /\ events[i].fallback
                /\ events[i].location = Get(legs[i], "destination", Empty)
                /\ events[i].maps_link = Get(legs[i], "shareable_link", Empty)

\* two different legs, the first with a destination and a link, became two
\* fallback events
C27_Witness ==
    /\ CalendarFellBack
    /\ LegsButNoActivities
    /\ Len(cal.itinerary.legs) = 2
    /\ cal.itinerary.legs[1] /= cal.itinerary.legs[2]
    /\ Len(cal.events) = 2
    /\ cal.events[1].location = LocBridge
    /\ cal.events[1].maps_link = LegLink(LocStart, LocBridge, <<"walking">>)

\* the value of a digit token
DigitValue(c) == CHOOSE d \in 0..9 : DigitChars[d + 1] = c

\* int() of the digits a token sequence starts with
RECURSIVE LeadingNumber(_, _)
LeadingNumber(toks, acc) ==
    IF toks = <<>> \/ Head(toks) \notin {DigitChars[k] : k \in 1..10} THEN acc
    ELSE LeadingNumber(Tail(toks), acc * 10 + DigitValue(Head(toks)))

\* what follows the first token c
RECURSIVE After(_, _)
After(toks, c) ==
    IF toks = <<>> THEN <<>>
    ELSE IF Head(toks) = c THEN Tail(toks)
    ELSE After(Tail(toks), c)

\* the hour and the minute an ISO time text reads as
HourOf(text) == LeadingNumber(After(text, "T"), 0)
MinuteOf(text) == LeadingNumber(After(After(text, "T"), ":"), 0)
MinuteOfDay(text) == HourOf(text) * 60 + MinuteOf(text)

\* C28: for any number of activities the fallback events have valid,
\* non-overlapping times on the base date: start and end hour in 0..23, each
\* event ends after it starts, and event i+1 starts no earlier than event i
\* ends.
C28_FallbackTimesValid ==
    CalendarFellBack =>
        LET events == cal.events
        IN \A i \in 1..Len(events) :
            /\ HourOf(events[i].start_time) \in 0..23
            /\ HourOf(events[i].end_time) \in 0..23
            /\ MinuteOfDay(events[i].end_time) > MinuteOfDay(events[i].start_time)
            /\ i < Len(events) =>
                 MinuteOfDay(events[i + 1].start_time) >= MinuteOfDay(events[i].end_time)

\* ------------------------------------------------ the monitor's records
\* check_for_new_videos has just returned
JustChecked ==
    /\ mon.pc \in {"process", "sleep"}
    /\ mon.last = NoCall
    /\ mon.new_videos = mon.reported
ListedIds == {mon.videos[k].video_id : k \in 1..Len(mon.videos)}
ReportedIds == {mon.reported[k].video_id : k \in 1..Len(mon.reported)}

ProcessedOnlyGrows == mon.last.before \subseteq mon.processed_videos
\* what a check returns is not in the processed set
ReportsOnlyUnprocessed == JustChecked => ReportedIds \cap mon.processed_videos = {}
\* save_video_data completed at most once for each video since the monitor
\* was constructed
SavedAtMostOncePerRun == \A v \in VideoIds : mon.saves[v] <= 1

\* C30: over any sequence of monitoring cycles the processed set only grows,
\* a check never reports a video that is in the processed set, and each
\* video is saved at most once per monitor run.
C30_SavedAtMostOnce ==
    /\ ProcessedOnlyGrows
    /\ ReportsOnlyUnprocessed
    /\ SavedAtMostOncePerRun

====
